---- MODULE Spec2Model ----
(***************************************************************************)
(* Model of T2I-CompBench-main/eval_all.py: the orchestrator that runs six *)
(* external metric evaluators and an optional MLLM judge, one after the    *)
(* other, and writes the collected results to final_eval_results.json.     *)
(*                                                                         *)
(* Python strings are sequences of pieces (TLA+ strings that are single    *)
(* characters or literal fragments of the source).  Python values are      *)
(* records tagged by t: "str", "int", "nan", "dict".  A dict is its item   *)
(* list in insertion order.                                                *)
(***************************************************************************)
EXTENDS Integers, Sequences, FiniteSets, TLC

VARIABLES
    pc,                 \* position of the interpreter in the module / main()
    env,                \* process environment: name -> [set, val]
    GPT4V_CATEGORIES,   \* module global, line 115
    GPT4V_START,        \* module global, line 116
    GPT4V_STEP,         \* module global, line 117
    results,            \* main()'s results dict (item list, insertion order)
    mllm_scores,        \* eval_mllm_gpt4v's local dict
    catIdx,             \* position of the for loop of eval_mllm_gpt4v
    proc,               \* the external process run_cmd is blocked on
    status,             \* outcome of the last subprocess.run
    invoked,            \* commands handed to subprocess.run, in order
    exits,              \* commands that ran to their exit, with the status
    resFile,            \* result files under EXAMPLES: key -> [exists, text]
    depth,              \* the tree under LABELS/depth
    summary,            \* final_eval_results.json: [exists, text]
    writes,             \* number of times the summary file was written
    exitStatus,         \* exit status of the python process, -1 while running
    exc,                \* the exception main() caught last, until the next stage
    uPc,                \* unit harness: calls made so far
    uLog                \* unit harness: outcome of each call

vars == <<pc, env, GPT4V_CATEGORIES, GPT4V_START, GPT4V_STEP, results,
          mllm_scores, catIdx, proc, status, invoked, exits, resFile, depth,
          summary, writes, exitStatus, exc, uPc, uLog>>

-----------------------------------------------------------------------------
(* Bounds of the model *)

\* number of file names a depth directory may hold
MaxNames == 2
\* number of distinct file contents of depth maps
MaxContents == 2
\* number of calls the unit harness makes in a row
MaxCalls == 2
\* number of rare events of one run: a result file that holds a NaN or is
\* truncated, a command that exits zero without writing its result file, a
\* command that cannot be started
MaxOdd == 1

-----------------------------------------------------------------------------
(* Sequences and strings *)

RECURSIVE Concat(_)
Concat(ss) == IF ss = <<>> THEN <<>> ELSE Head(ss) \o Concat(Tail(ss))

Range(s) == {s[i] : i \in 1..Len(s)}

IsSpace(c) == c \in {" ", "\t", "\n"}

RECURSIVE LStrip(_)
LStrip(s) == IF s # <<>> /\ IsSpace(Head(s)) THEN LStrip(Tail(s)) ELSE s

RECURSIVE RStrip(_)
RStrip(s) ==
    IF s # <<>> /\ IsSpace(s[Len(s)]) THEN RStrip(SubSeq(s, 1, Len(s) - 1)) ELSE s

\* str.strip()
Strip(s) == RStrip(LStrip(s))

\* str.split(sep): the pieces between the separators, never an empty list
RECURSIVE SplitFrom(_, _, _)
SplitFrom(s, sep, cur) ==
    IF s = <<>> THEN <<cur>>
    ELSE IF Head(s) = sep THEN <<cur>> \o SplitFrom(Tail(s), sep, <<>>)
    ELSE SplitFrom(Tail(s), sep, Append(cur, Head(s)))

Split(s, sep) == SplitFrom(s, sep, <<>>)

Digits == <<"0", "1", "2", "3", "4", "5", "6", "7", "8", "9">>

IsDigit(c) == c \in Range(Digits)

DigitVal(c) == (CHOOSE i \in 1..10 : Digits[i] = c) - 1

RECURSIVE DigitsVal(_, _)
DigitsVal(s, acc) ==
    IF s = <<>> THEN acc ELSE DigitsVal(Tail(s), 10 * acc + DigitVal(Head(s)))

\* int(str): surrounding whitespace and one sign are accepted, then digits.
\* [ok |-> FALSE] stands for ValueError.
ParseInt(s) ==
    LET t == Strip(s)
        signed == t # <<>> /\ Head(t) \in {"-", "+"}
        d == IF signed THEN Tail(t) ELSE t
    IN  IF d = <<>> \/ \E i \in 1..Len(d) : ~IsDigit(d[i])
        THEN [ok |-> FALSE, v |-> 0]
        ELSE [ok |-> TRUE,
              v |-> IF signed /\ Head(t) = "-" THEN 0 - DigitsVal(d, 0)
                    ELSE DigitsVal(d, 0)]

RECURSIVE NatToStr(_)
NatToStr(n) ==
    IF n < 10 THEN <<Digits[n + 1]>> ELSE Append(NatToStr(n \div 10), Digits[(n % 10) + 1])

\* str(int), as an f-string formats it
IntToStr(n) == IF n < 0 THEN <<"-">> \o NatToStr(0 - n) ELSE NatToStr(n)

-----------------------------------------------------------------------------
(* Python values *)

PyStr(s) == [t |-> "str", s |-> s]
PyInt(n) == [t |-> "int", n |-> n]
PyNaN == [t |-> "nan"]
PyDict(items) == [t |-> "dict", items |-> items]

EmptyDict == PyDict(<<>>)

DictKeys(d) == {d.items[i].k : i \in 1..Len(d.items)}

HasKey(d, k) == k \in DictKeys(d)

DictGet(d, k) == d.items[CHOOSE i \in 1..Len(d.items) : d.items[i].k = k].v

\* d[k] = v: an existing key keeps its position, a new key goes last
DictSet(d, k, v) ==
    IF HasKey(d, k)
    THEN PyDict([i \in 1..Len(d.items) |->
                 IF d.items[i].k = k THEN [k |-> k, v |-> v] ELSE d.items[i]])
    ELSE PyDict(Append(d.items, [k |-> k, v |-> v]))

\* a == b on values.  a and b are never the same object here (one of them
\* was just built by a parse), and a float nan is equal to no other float.
RECURSIVE PyEq(_, _)
PyEq(a, b) ==
    IF a.t # b.t THEN FALSE
    ELSE IF a.t = "nan" THEN FALSE
    ELSE IF a.t = "dict"
         THEN /\ DictKeys(a) = DictKeys(b)
              /\ \A k \in DictKeys(a) : PyEq(DictGet(a, k), DictGet(b, k))
    ELSE a = b

-----------------------------------------------------------------------------
(* json.dump(obj, f, indent=4) and json.load(f), on token sequences *)

Tok(k) == [k |-> k]
StrTok(s) == [k |-> "str", s |-> s]
NumTok(s) == [k |-> "num", s |-> s]
WsTok(n) == [k |-> "ws", n |-> n]

\* the body of a JSON string literal: quote and backslash are escaped
RECURSIVE Escape(_)
Escape(s) ==
    IF s = <<>> THEN <<>>
    ELSE IF Head(s) \in {"\"", "\\"} THEN <<"\\", Head(s)>> \o Escape(Tail(s))
    ELSE <<Head(s)>> \o Escape(Tail(s))

RECURSIVE Unescape(_)
Unescape(s) ==
    IF s = <<>> THEN <<>>
    ELSE IF Head(s) = "\\" /\ Len(s) >= 2 THEN <<s[2]>> \o Unescape(Tail(Tail(s)))
    ELSE <<Head(s)>> \o Unescape(Tail(s))

RECURSIVE Dump(_, _)
RECURSIVE DumpItems(_, _)

\* items of a non-empty dict, each on its own line at indentation lvl
DumpItems(items, lvl) ==
    LET it == Head(items)
        one == <<WsTok(lvl), StrTok(Escape(it.k)), Tok(":"), WsTok(0)>>
                 \o Dump(it.v, lvl)
    IN  IF Len(items) = 1 THEN one
        ELSE one \o <<Tok(",")>> \o DumpItems(Tail(items), lvl)

\* the text json.dump writes for v, nested at indentation lvl
Dump(v, lvl) ==
    CASE v.t = "str" -> <<StrTok(Escape(v.s))>>
      [] v.t = "int" -> <<NumTok(IntToStr(v.n))>>
      [] v.t = "nan" -> <<Tok("NaN")>>
      [] v.t = "dict" ->
            IF v.items = <<>> THEN <<Tok("{"), Tok("}")>>
            ELSE <<Tok("{")>> \o DumpItems(v.items, lvl + 4)
                   \o <<WsTok(lvl), Tok("}")>>

JsonDump(v) == Dump(v, 0)

RECURSIVE SkipWs(_)
SkipWs(toks) == IF toks # <<>> /\ Head(toks).k = "ws" THEN SkipWs(Tail(toks)) ELSE toks

ParseFail == [ok |-> FALSE, v |-> PyNaN, rest |-> <<>>]

RECURSIVE ParseValue(_)
RECURSIVE ParseMembers(_, _)

\* members of an object after "{" or ",": key, colon, value, then "," or "}"
ParseMembers(toks, d) ==
    LET t1 == SkipWs(toks)
    IN  IF t1 = <<>> \/ Head(t1).k # "str" THEN ParseFail
        ELSE LET t2 == SkipWs(Tail(t1))
             IN  IF t2 = <<>> \/ Head(t2).k # ":" THEN ParseFail
                 ELSE LET r == ParseValue(Tail(t2))
                          t3 == SkipWs(r.rest)
                          d2 == DictSet(d, Unescape(Head(t1).s), r.v)
                      IN  IF ~r.ok \/ t3 = <<>> THEN ParseFail
                          ELSE IF Head(t3).k = "," THEN ParseMembers(Tail(t3), d2)
                          ELSE IF Head(t3).k = "}"
                               THEN [ok |-> TRUE, v |-> d2, rest |-> Tail(t3)]
                          ELSE ParseFail

ParseValue(toks) ==
    LET t == SkipWs(toks)
    IN  IF t = <<>> THEN ParseFail
        ELSE LET h == Head(t)
             IN  CASE h.k = "str" -> [ok |-> TRUE, v |-> PyStr(Unescape(h.s)), rest |-> Tail(t)]
                   [] h.k = "num" ->
                        LET p == ParseInt(h.s)
                        IN  IF p.ok THEN [ok |-> TRUE, v |-> PyInt(p.v), rest |-> Tail(t)]
                            ELSE ParseFail
                   [] h.k = "NaN" -> [ok |-> TRUE, v |-> PyNaN, rest |-> Tail(t)]
                   [] h.k = "{" ->
                        LET t1 == SkipWs(Tail(t))
                        IN  IF t1 # <<>> /\ Head(t1).k = "}"
                            THEN [ok |-> TRUE, v |-> EmptyDict, rest |-> Tail(t1)]
                            ELSE ParseMembers(t1, EmptyDict)
                   [] OTHER -> ParseFail

\* json.load: [ok |-> FALSE] stands for json.JSONDecodeError
JsonLoad(text) ==
    LET r == ParseValue(text)
    IN  IF r.ok /\ SkipWs(r.rest) = <<>> THEN [ok |-> TRUE, v |-> r.v]
        ELSE [ok |-> FALSE, v |-> PyNaN]

-----------------------------------------------------------------------------
(* Exceptions *)

NoExc == [type |-> "none", msg |-> <<>>]
Exc(type, msg) == [type |-> type, msg |-> msg]

-----------------------------------------------------------------------------
(* Paths, lines 7-11 *)

ROOT == <<"ROOT">>
Join(p, name) == p \o <<"/", name>>
EXAMPLES == Join(ROOT, "examples")
SAMPLES == Join(EXAMPLES, "samples")
LABELS == Join(EXAMPLES, "labels")

-----------------------------------------------------------------------------
(* The tree under LABELS/depth.  depthDir: LABELS/depth exists; samples:   *)
(* LABELS/depth/samples; examples: LABELS/depth/examples exists; exOther:  *)
(* it holds something besides samples/; wrong: LABELS/depth/examples/samples. *)
(* A directory is [exists, files], files a map from names to contents.     *)

Names == 1..MaxNames
Contents == 1..MaxContents

NoDir == [exists |-> FALSE, files |-> <<>>]
Dir(f) == [exists |-> TRUE, files |-> f]

FileMaps == UNION {[S -> Contents] : S \in SUBSET Names}

\* a tree is well formed when every existing directory has its parent
TreeOK(d) ==
    /\ d.samples.exists => d.depthDir
    /\ d.examples => d.depthDir
    /\ d.wrong.exists => d.examples
    /\ d.exOther => d.examples

Trees ==
    {d \in [depthDir : BOOLEAN, samples : {NoDir} \cup {Dir(f) : f \in FileMaps},
            examples : BOOLEAN, exOther : BOOLEAN,
            wrong : {NoDir} \cup {Dir(f) : f \in FileMaps}] : TreeOK(d)}

\* Path.mkdir(parents, exist_ok) for LABELS/depth itself
MkdirDepth(d, exist_ok) ==
    IF d.depthDir
    THEN [d |-> d, exc |-> IF exist_ok THEN NoExc ELSE Exc("FileExistsError", <<"depth">>)]
    ELSE [d |-> [d EXCEPT !.depthDir = TRUE], exc |-> NoExc]

\* Path.mkdir(parents, exist_ok) for LABELS/depth/samples
MkdirSamples(d, parents, exist_ok) ==
    IF d.samples.exists
    THEN [d |-> d, exc |-> IF exist_ok THEN NoExc ELSE Exc("FileExistsError", <<"samples">>)]
    ELSE IF ~d.depthDir /\ ~parents
    THEN [d |-> d, exc |-> Exc("FileNotFoundError", <<"samples">>)]
    ELSE [d |-> [d EXCEPT !.depthDir = TRUE, !.samples = Dir(<<>>)], exc |-> NoExc]

\* both mkdir calls without exist_ok
ensure_dirs_exist_not_ok(d) ==
    LET r == MkdirDepth(d, FALSE)
    IN  IF r.exc # NoExc THEN r ELSE MkdirSamples(r.d, TRUE, FALSE)

ensure_dirs(d) ==
    LET r == MkdirDepth(d, TRUE)
    IN  IF r.exc # NoExc THEN r ELSE MkdirSamples(r.d, TRUE, TRUE)

\* files of a directory with name n bound to content c
PutFile(files, n, c) ==
    [m \in DOMAIN files \cup {n} |-> IF m = n THEN c ELSE files[m]]

DelFile(files, n) == [m \in DOMAIN files \ {n} |-> files[m]]

\* f.rename(correct_dir / f.name) for the file named n of wrong_dir: a file of
\* that name in correct_dir is replaced; a missing correct_dir is an error
Rename(d, n) ==
    IF ~d.samples.exists
    THEN [d |-> d, exc |-> Exc("FileNotFoundError", <<"samples">>)]
    ELSE [d |-> [d EXCEPT !.samples = Dir(PutFile(d.samples.files, n, d.wrong.files[n])),
                          !.wrong = Dir(DelFile(d.wrong.files, n))],
          exc |-> NoExc]

\* for f in wrong_dir.iterdir(): f.rename(...), over the names still to move
RECURSIVE MoveAll(_, _)
MoveAll(d, todo) ==
    IF todo = {} THEN [d |-> d, exc |-> NoExc]
    ELSE LET n == CHOOSE m \in todo : TRUE
             r == Rename(d, n)
         IN  IF r.exc # NoExc THEN r ELSE MoveAll(r.d, todo \ {n})

\* os.system("rm -rf LABELS/depth/examples")
RmExamples(d) == [d EXCEPT !.examples = FALSE, !.exOther = FALSE, !.wrong = NoDir]

fix_depth_structure(d) ==
    IF d.wrong.exists
    THEN LET r == MoveAll(d, DOMAIN d.wrong.files)
         IN  IF r.exc # NoExc THEN r ELSE [d |-> RmExamples(r.d), exc |-> NoExc]
    ELSE [d |-> d, exc |-> NoExc]

-----------------------------------------------------------------------------
(* The process environment and the inputs of a run *)

Unset == [set |-> FALSE, val |-> <<>>]
Val(s) == [set |-> TRUE, val |-> s]

MkEnv(c, s, t, k) ==
    [GPT4V_CATEGORIES |-> c, GPT4V_START |-> s, GPT4V_STEP |-> t, OPENAI_API_KEY |-> k]

\* os.getenv(name, default)
Getenv(e, name, default) == IF e[name].set THEN e[name].val ELSE default

\* environments a run is started with
EnvConfigs ==
    { MkEnv(Unset, Unset, Unset, Unset),
      MkEnv(Val(<<"a", ",", "b">>), Val(<<"5">>), Val(<<"2">>), Val(<<"k">>)),
      MkEnv(Val(<<" ", "a", " ", ",", ",">>), Val(<<" ", "1", "0">>), Unset, Val(<<"k">>)),
      MkEnv(Val(<<>>), Unset, Val(<<"-", "1">>), Val(<<>>)),
      MkEnv(Unset, Val(<<"x">>), Unset, Val(<<"k">>)),
      MkEnv(Unset, Unset, Val(<<>>), Unset) }

\* Texts an evaluator may leave in its result file: a plain object holding a
\* score, the same with the score a NaN (as json.dump writes a float nan), or
\* a file cut short.  The plain score differs from one evaluator (and one
\* judge category) to the next, so a result is told from another's.
ScoreText(n) ==
    <<Tok("{"), StrTok(<<"score">>), Tok(":"), WsTok(0), NumTok(IntToStr(n)), Tok("}")>>
TextNaN == <<Tok("{"), StrTok(<<"score">>), Tok(":"), WsTok(0), Tok("NaN"), Tok("}")>>
TextTruncated == <<Tok("{"), StrTok(<<"score">>)>>

ResultTexts(n) == {ScoreText(n), TextNaN, TextTruncated}

\* the texts that are not plain JSON: a NaN constant, a truncated file
OddTexts == {TextNaN, TextTruncated}

\* exit statuses of an external command
ReturnCodes == {0, 1}

NoProc == [cmd |-> <<>>, cwd |-> <<>>]
NoStatus == -1

\* the files under EXAMPLES that hold results: a map from the paths that exist
FileExists(files, path) == path \in DOMAIN files
WriteFile(files, path, text) ==
    [q \in DOMAIN files \cup {path} |-> IF q = path THEN text ELSE files[q]]

\* rare events of the run so far: odd result files, commands that exited zero
\* without writing their result file, commands not started
OddCount(files, exs, nInvoked, running) ==
    Cardinality({q \in DOMAIN files : files[q] \in OddTexts})
        + Cardinality({i \in 1..Len(exs) : exs[i].rc = 0 /\ ~exs[i].wrote})
        + (nInvoked - Len(exs) - IF running THEN 1 ELSE 0)

-----------------------------------------------------------------------------
(* The six metric stages, lines 42-112: command, working directory, result *)
(* file, key and placeholder of each, and the positions of main() in it    *)

VQA ==
    [key |-> <<"VQA">>, score |-> 1,
     cmd |-> <<"python BLIP_vqa.py --out_dir=../examples">>,
     cwd |-> Join(ROOT, "BLIPvqa_eval"),
     path |-> Join(Join(EXAMPLES, "annotation_blip"), "vqa_result.json"),
     nores |-> <<"No result produced.">>,
     pc |-> "eval_vqa", wait |-> "eval_vqa_wait", ret |-> "eval_vqa_ret",
     next |-> "eval_2d_spatial"]

Spatial2D ==
    [key |-> <<"2D_Spatial">>, score |-> 2,
     cmd |-> <<"python 2D_spatial_eval.py --outpath=../examples">>,
     cwd |-> Join(ROOT, "UniDet_eval"),
     path |-> Join(Join(Join(EXAMPLES, "labels"), "annotation_obj_detection_2d"), "vqa_result.json"),
     nores |-> <<"No results.">>,
     pc |-> "eval_2d_spatial", wait |-> "eval_2d_spatial_wait", ret |-> "eval_2d_spatial_ret",
     next |-> "eval_numeracy"]

Numeracy ==
    [key |-> <<"Numeracy">>, score |-> 3,
     cmd |-> <<"python numeracy_eval.py --outpath=../examples">>,
     cwd |-> Join(ROOT, "UniDet_eval"),
     path |-> Join(Join(EXAMPLES, "annotation_num"), "vqa_result.json"),
     nores |-> <<"No results.">>,
     pc |-> "eval_numeracy", wait |-> "eval_numeracy_wait", ret |-> "eval_numeracy_ret",
     next |-> "eval_3d_spatial"]

Spatial3D ==
    [key |-> <<"3D_Spatial">>, score |-> 4,
     cmd |-> <<"python 3D_spatial_eval.py --outpath=../examples">>,
     cwd |-> Join(ROOT, "UniDet_eval"),
     path |-> Join(Join(Join(EXAMPLES, "labels"), "annotation_obj_detection_3d"), "vqa_result.json"),
     nores |-> <<"No results.">>,
     pc |-> "eval_3d_spatial", wait |-> "eval_3d_spatial_wait", ret |-> "eval_3d_spatial_ret",
     next |-> "eval_clip_similarity"]

ClipSimilarity ==
    [key |-> <<"CLIP_Similarity">>, score |-> 5,
     cmd |-> <<"python CLIP_similarity.py --outpath=../examples">>,
     cwd |-> Join(ROOT, "CLIPScore_eval"),
     path |-> Join(Join(EXAMPLES, "annotation_clip"), "vqa_result.json"),
     nores |-> <<"No results.">>,
     pc |-> "eval_clip_similarity", wait |-> "eval_clip_similarity_wait",
     ret |-> "eval_clip_similarity_ret",
     next |-> "eval_three_in_one"]

ThreeInOne ==
    [key |-> <<"3_in_1">>, score |-> 6,
     cmd |-> <<"python 3_in_1.py --outpath=../examples">>,
     cwd |-> Join(ROOT, "3_in_1_eval"),
     path |-> Join(Join(EXAMPLES, "annotation_3_in_1"), "vqa_result.json"),
     nores |-> <<"No results.">>,
     pc |-> "eval_three_in_one", wait |-> "eval_three_in_one_wait",
     ret |-> "eval_three_in_one_ret",
     next |-> "mllm_gate"]

MetricStages == <<VQA, Spatial2D, Numeracy, Spatial3D, ClipSimilarity, ThreeInOne>>

MLLM_KEY == <<"MLLM_GPT4V">>

-----------------------------------------------------------------------------
(* run_cmd, lines 14-23 *)

\* lines 22-23: the exception run_cmd raises for a returncode, if any
run_cmd_check(cmd, rc) ==
    IF rc # 0 THEN Exc("RuntimeError", <<"Command failed: ">> \o cmd) ELSE NoExc

\* subprocess.run could not start the command in cwd
LaunchError(cwd) == Exc("FileNotFoundError", <<"[Errno 2] No such file or directory: ">> \o cwd)

\* an absent result file recorded the way a failure is
NoResultAsFailure(sd) == PyStr(<<"Failed: ">> \o sd.nores)

\* the value a stage stores when its result file is absent
NoResult(sd) == PyStr(sd.nores)

\* a stage that looks for its result where the VQA stage's is
StageBodyVqaPath(sd, rc, files, res) ==
    LET e == run_cmd_check(sd.cmd, rc)
    IN  IF e # NoExc THEN [results |-> res, exc |-> e]
        ELSE IF FileExists(files, VQA.path)
        THEN LET l == JsonLoad(files[VQA.path])
             IN  IF l.ok THEN [results |-> DictSet(res, sd.key, l.v), exc |-> NoExc]
                 ELSE [results |-> res, exc |-> Exc("JSONDecodeError", <<"Expecting value">>)]
        ELSE [results |-> DictSet(res, sd.key, NoResult(sd)), exc |-> NoExc]

\* a stage that stores its placeholder before it lets run_cmd's failure out
StageBodyRecordsOnFailure(sd, rc, files, res) ==
    LET e == run_cmd_check(sd.cmd, rc)
    IN  IF e # NoExc THEN [results |-> DictSet(res, sd.key, NoResult(sd)), exc |-> e]
        ELSE IF FileExists(files, sd.path)
        THEN LET l == JsonLoad(files[sd.path])
             IN  IF l.ok THEN [results |-> DictSet(res, sd.key, l.v), exc |-> NoExc]
                 ELSE [results |-> res, exc |-> Exc("JSONDecodeError", <<"Expecting value">>)]
        ELSE [results |-> DictSet(res, sd.key, NoResult(sd)), exc |-> NoExc]

\* a stage that stores what it collects under the VQA stage's key
StageBodyVqaKey(sd, rc, files, res) ==
    LET e == run_cmd_check(sd.cmd, rc)
    IN  IF e # NoExc THEN [results |-> res, exc |-> e]
        ELSE IF FileExists(files, sd.path)
        THEN LET l == JsonLoad(files[sd.path])
             IN  IF l.ok THEN [results |-> DictSet(res, VQA.key, l.v), exc |-> NoExc]
                 ELSE [results |-> res, exc |-> Exc("JSONDecodeError", <<"Expecting value">>)]
        ELSE [results |-> DictSet(res, VQA.key, NoResult(sd)), exc |-> NoExc]

\* a stage that takes a result file it cannot parse for an absent one
StageBodyMalformedAsNoResult(sd, rc, files, res) ==
    LET e == run_cmd_check(sd.cmd, rc)
    IN  IF e # NoExc THEN [results |-> res, exc |-> e]
        ELSE IF FileExists(files, sd.path) /\ JsonLoad(files[sd.path]).ok
        THEN [results |-> DictSet(res, sd.key, JsonLoad(files[sd.path]).v), exc |-> NoExc]
        ELSE [results |-> DictSet(res, sd.key, NoResult(sd)), exc |-> NoExc]

\* the part of a metric stage function after subprocess.run has returned rc:
\* the rest of run_cmd, the existence check and the load.  The stage's
\* exception, if any, is left in exc for main() to catch.
StageBody(sd, rc, files, res) ==
    LET e == run_cmd_check(sd.cmd, rc)
    IN  IF e # NoExc THEN [results |-> res, exc |-> e]
        ELSE IF FileExists(files, sd.path)
        THEN LET l == JsonLoad(files[sd.path])
             IN  IF l.ok THEN [results |-> DictSet(res, sd.key, l.v), exc |-> NoExc]
                 ELSE [results |-> res, exc |-> Exc("JSONDecodeError", <<"Expecting value">>)]
        ELSE [results |-> DictSet(res, sd.key, NoResult(sd)), exc |-> NoExc]

\* the 3D stage without the repair step
eval_3d_spatial_body_norepair(rc, files, res, d) ==
    LET e == run_cmd_check(Spatial3D.cmd, rc)
        b == StageBody(Spatial3D, rc, files, res)
    IN  IF e # NoExc THEN [results |-> res, exc |-> e, depth |-> d]
        ELSE [results |-> b.results, exc |-> b.exc, depth |-> d]

\* eval_3d_spatial after subprocess.run has returned rc, lines 81-88: the
\* repair step runs only when run_cmd did not raise, then the stage body
eval_3d_spatial_body(rc, files, res, d) ==
    LET e == run_cmd_check(Spatial3D.cmd, rc)
        r == fix_depth_structure(d)
        b == StageBody(Spatial3D, rc, files, res)
    IN  IF e # NoExc THEN [results |-> res, exc |-> e, depth |-> d]
        ELSE IF r.exc # NoExc THEN [results |-> res, exc |-> r.exc, depth |-> r.d]
        ELSE [results |-> b.results, exc |-> b.exc, depth |-> r.d]

-----------------------------------------------------------------------------
(* Initial state: the interpreter is about to execute the module *)

cfgVars == <<env, GPT4V_CATEGORIES, GPT4V_START, GPT4V_STEP>>
outVars == <<summary, writes, exitStatus>>
unitVars == <<uPc, uLog>>

NoFile == [exists |-> FALSE, text |-> <<>>]

\* the tree of a fresh checkout: LABELS/depth does not exist yet
FreshTree ==
    [depthDir |-> FALSE, samples |-> NoDir, examples |-> FALSE, exOther |-> FALSE,
     wrong |-> NoDir]

InitCommon ==
    /\ GPT4V_CATEGORIES = <<>>
    /\ GPT4V_START = 0
    /\ GPT4V_STEP = 0
    /\ results = EmptyDict
    /\ mllm_scores = EmptyDict
    /\ catIdx = 0
    /\ proc = NoProc
    /\ status = NoStatus
    /\ invoked = <<>>
    /\ exits = <<>>
    /\ resFile = <<>>
    /\ summary = NoFile
    /\ writes = 0
    /\ exitStatus = -1
    /\ exc = NoExc
    /\ uPc = 0
    /\ uLog = <<>>

Init ==
    /\ pc = "import"
    /\ env \in EnvConfigs
    /\ depth = FreshTree
    /\ InitCommon

-----------------------------------------------------------------------------
(* Module execution, lines 115-117 and 199-200 *)

DefaultCategories == <<"c", "o", "m", "p", "l", "e", "x">>

\* The three module-level assignments, then main() starts with results = {}.
\* int() raising ValueError ends the process with a traceback before main().
import_module ==
    /\ pc = "import"
    /\ LET cats == Split(Getenv(env, "GPT4V_CATEGORIES", DefaultCategories), ",")
           st == ParseInt(Getenv(env, "GPT4V_START", <<"0">>))
           sp == ParseInt(Getenv(env, "GPT4V_STEP", <<"1">>))
       IN  /\ GPT4V_CATEGORIES' = cats
           /\ GPT4V_START' = IF st.ok THEN st.v ELSE GPT4V_START
           /\ GPT4V_STEP' = IF st.ok /\ sp.ok THEN sp.v ELSE GPT4V_STEP
           /\ IF st.ok /\ sp.ok
              THEN pc' = "eval_vqa" /\ UNCHANGED exitStatus
              ELSE pc' = "crashed" /\ exitStatus' = 1
    /\ results' = EmptyDict
    /\ UNCHANGED <<env, mllm_scores, catIdx, proc, status, invoked, exits, resFile, depth,
                   summary, writes, exc, unitVars>>

-----------------------------------------------------------------------------
(* run_cmd around subprocess.run, line 21 *)

\* subprocess.run is called with cmd in cwd: the command starts and run_cmd
\* blocks on it (pc becomes wait), or it cannot be started and the exception
\* leaves the stage function (handled by the caller of RunStart)
RunStarted(cmd, cwd, wait) ==
    /\ invoked' = Append(invoked, [cmd |-> cmd, cwd |-> cwd])
    /\ proc' = [cmd |-> cmd, cwd |-> cwd]
    /\ pc' = wait
    /\ exc' = NoExc

RunNotStarted(cmd, cwd) ==
    /\ OddCount(resFile, exits, Len(invoked) + 1, FALSE) <= MaxOdd
    /\ invoked' = Append(invoked, [cmd |-> cmd, cwd |-> cwd])
    /\ exc' = LaunchError(cwd)
    /\ UNCHANGED proc

\* The external command runs and exits with a status; a command that exits 0
\* has left the result file at path, its plain text holding score n, or an
\* odd text, or has written nothing.  The exit is logged with its status
\* and whether the file was written.
ProcExit(cmd, path, n) ==
    /\ proc' = NoProc
    /\ \E rc \in ReturnCodes :
          /\ status' = rc
          /\ IF rc = 0
             THEN \/ /\ exits' = Append(exits, [cmd |-> cmd, rc |-> rc, wrote |-> FALSE])
                     /\ OddCount(resFile, exits', Len(invoked), FALSE) <= MaxOdd
                     /\ UNCHANGED resFile
                  \/ \E t \in ResultTexts(n) :
                        /\ exits' = Append(exits, [cmd |-> cmd, rc |-> rc, wrote |-> TRUE])
                        /\ resFile' = WriteFile(resFile, path, t)
                        /\ OddCount(resFile', exits', Len(invoked), FALSE) <= MaxOdd
             ELSE /\ exits' = Append(exits, [cmd |-> cmd, rc |-> rc, wrote |-> FALSE])
                  /\ UNCHANGED resFile

\* a handler that lets everything but RuntimeError escape main()
NextAfterOnlyRuntimeError(sd, e) ==
    IF e.type \in {"none", "RuntimeError"} THEN sd.next ELSE "crashed"

\* no handler at all: an exception of the stage ends main()
NextAfterUncaught(sd, e) == IF e = NoExc THEN sd.next ELSE "crashed"

\* main() with the numeracy stage placed before the 2D stage
NextAfterReordered(sd, e) ==
    IF sd.key = VQA.key THEN Numeracy.pc
    ELSE IF sd.key = Numeracy.key THEN Spatial2D.pc
    ELSE IF sd.key = Spatial2D.key THEN Spatial3D.pc
    ELSE sd.next

\* main() giving up on the remaining stages after a stage's exception
NextAfterFailureEndsRun(sd, e) == IF e # NoExc THEN "finalize" ELSE sd.next

\* main()'s try/except around a metric stage, lines 149-178: whether the stage
\* returned or raised e (any Exception), main() goes on to the next stage
NextAfter(sd, e) == sd.next

-----------------------------------------------------------------------------
(* A metric stage in three steps: the call up to subprocess.run starting   *)
(* the command, the command running to its exit, and the return.           *)

\* The stage function is entered and run_cmd starts the command.  When the
\* command cannot be started the exception goes to main()'s handler, which
\* prints it, and main() moves on to the next stage.
StageCall(sd) ==
    /\ pc = sd.pc
    /\ \/ RunStarted(sd.cmd, sd.cwd, sd.wait)
       \/ RunNotStarted(sd.cmd, sd.cwd) /\ pc' = NextAfter(sd, LaunchError(sd.cwd))
    /\ UNCHANGED <<cfgVars, results, mllm_scores, catIdx, status, exits, resFile, depth,
                   outVars, unitVars>>

\* The external evaluator runs and exits.
StageProc(sd) ==
    /\ pc = sd.wait
    /\ ProcExit(sd.cmd, sd.path, sd.score)
    /\ pc' = sd.ret
    /\ UNCHANGED <<cfgVars, results, mllm_scores, catIdx, invoked, depth, exc,
                   outVars, unitVars>>

\* subprocess.run has returned: the rest of the stage function, and main()'s
\* try/except around it (lines 149-178), which only prints the exception.
StageRet(sd) ==
    /\ pc = sd.ret
    /\ LET b == StageBody(sd, status, resFile, results)
       IN  /\ results' = b.results
           /\ exc' = b.exc
           /\ pc' = NextAfter(sd, b.exc)
    /\ status' = NoStatus
    /\ UNCHANGED <<cfgVars, mllm_scores, catIdx, proc, invoked, exits, resFile, depth,
                   outVars, unitVars>>

eval_vqa_call == StageCall(VQA)
eval_vqa_proc == StageProc(VQA)
eval_vqa_ret == StageRet(VQA)

eval_2d_spatial_call == StageCall(Spatial2D)
eval_2d_spatial_proc == StageProc(Spatial2D)
eval_2d_spatial_ret == StageRet(Spatial2D)

eval_numeracy_call == StageCall(Numeracy)
eval_numeracy_proc == StageProc(Numeracy)
eval_numeracy_ret == StageRet(Numeracy)

eval_clip_similarity_call == StageCall(ClipSimilarity)
eval_clip_similarity_proc == StageProc(ClipSimilarity)
eval_clip_similarity_ret == StageRet(ClipSimilarity)

eval_three_in_one_call == StageCall(ThreeInOne)
eval_three_in_one_proc == StageProc(ThreeInOne)
eval_three_in_one_ret == StageRet(ThreeInOne)

-----------------------------------------------------------------------------
(* The 3D stage, lines 77-88 *)

\* ensure_dirs(), then run_cmd starts the command
eval_3d_spatial_call ==
    /\ pc = Spatial3D.pc
    /\ LET r == ensure_dirs(depth)
       IN  /\ depth' = r.d
           /\ IF r.exc # NoExc
              THEN /\ exc' = r.exc
                   /\ pc' = NextAfter(Spatial3D, r.exc)
                   /\ UNCHANGED <<proc, invoked>>
              ELSE \/ RunStarted(Spatial3D.cmd, Spatial3D.cwd, Spatial3D.wait)
                   \/ /\ RunNotStarted(Spatial3D.cmd, Spatial3D.cwd)
                      /\ pc' = NextAfter(Spatial3D, LaunchError(Spatial3D.cwd))
    /\ UNCHANGED <<cfgVars, results, mllm_scores, catIdx, status, exits, resFile,
                   outVars, unitVars>>

\* what the 3D evaluator does to the depth tree: nothing, a depth map written
\* under the misplaced depth/examples/samples, or one written to depth/samples
\* (the misplaced map is told from a well placed one by its content)
DepthWrite(d, where) ==
    CASE where = "none" -> d
      [] where = "wrong" ->
            [d EXCEPT !.examples = TRUE, !.wrong = Dir(PutFile(d.wrong.files, 1, 2))]
      [] where = "correct" ->
            [d EXCEPT !.samples = Dir(PutFile(d.samples.files, 1, 1))]

\* The 3D evaluator runs and exits; it writes its depth maps whatever its status.
eval_3d_spatial_proc ==
    /\ pc = Spatial3D.wait
    /\ ProcExit(Spatial3D.cmd, Spatial3D.path, Spatial3D.score)
    /\ \E where \in {"none", "wrong", "correct"} : depth' = DepthWrite(depth, where)
    /\ pc' = Spatial3D.ret
    /\ UNCHANGED <<cfgVars, results, mllm_scores, catIdx, invoked, exc, outVars, unitVars>>

eval_3d_spatial_ret ==
    /\ pc = Spatial3D.ret
    /\ LET b == eval_3d_spatial_body(status, resFile, results, depth)
       IN  /\ results' = b.results
           /\ exc' = b.exc
           /\ depth' = b.depth
           /\ pc' = NextAfter(Spatial3D, b.exc)
    /\ status' = NoStatus
    /\ UNCHANGED <<cfgVars, mllm_scores, catIdx, proc, invoked, exits, resFile,
                   outVars, unitVars>>

-----------------------------------------------------------------------------
(* The MLLM stage, lines 119-141 and 180-189 *)

MLLM_CWD == Join(ROOT, "MLLM_eval")

\* the two flags given each other's value
MllmCmdSwapped(cat, start, step) ==
    <<"python gpt4v_eval.py ", "--category ", "\"">> \o cat \o <<"\"", " --start ">>
        \o IntToStr(step) \o <<" --step ">> \o IntToStr(start)

\* lines 128-131
MllmCmd(cat, start, step) ==
    <<"python gpt4v_eval.py ", "--category ", "\"">> \o cat \o <<"\"", " --start ">>
        \o IntToStr(start) \o <<" --step ">> \o IntToStr(step)

\* lines 134-135
MllmPath(cat, start, step) ==
    Join(Join(EXAMPLES, "gpt4v"),
         Concat(<<<<"gpt4v_result_">>, IntToStr(start), <<"_">>, IntToStr(step), <<".json">>>>))

\* os.getenv("OPENAI_API_KEY") is not None
HasCredentialIsSet(e) == e["OPENAI_API_KEY"].set

\* bool(os.getenv("OPENAI_API_KEY")), line 182
HasCredential(e) == e["OPENAI_API_KEY"].set /\ e["OPENAI_API_KEY"].val # <<>>

\* main()'s handler of the MLLM stage, lines 185-187
main_except_mllm(res, e) == DictSet(res, MLLM_KEY, PyStr(<<"Failed: ">> \o e.msg))

\* the category the loop is at, stripped (line 123)
CurCat == Strip(GPT4V_CATEGORIES[catIdx])

CurCmd == MllmCmd(CurCat, GPT4V_START, GPT4V_STEP)

\* line 182: the stage is entered only with a credential
mllm_gate ==
    /\ pc = "mllm_gate"
    /\ IF HasCredential(env)
       THEN /\ pc' = "mllm_loop"
            /\ mllm_scores' = EmptyDict
            /\ catIdx' = 1
       ELSE /\ pc' = "finalize"
            /\ UNCHANGED <<mllm_scores, catIdx>>
    /\ exc' = NoExc
    /\ UNCHANGED <<cfgVars, results, proc, status, invoked, exits, resFile, depth,
                   outVars, unitVars>>

\* One turn of the for loop up to subprocess.run starting the judge: the loop
\* ends (line 141), an empty category is skipped (lines 124-125), or the judge
\* is started (line 132).  A judge that cannot be started raises into main().
mllm_loop ==
    /\ pc = "mllm_loop"
    /\ IF catIdx > Len(GPT4V_CATEGORIES)
       THEN /\ results' = DictSet(results, MLLM_KEY, mllm_scores)
            /\ pc' = "finalize"
            /\ UNCHANGED <<catIdx, proc, invoked, exc>>
       ELSE IF CurCat = <<>>
       THEN /\ catIdx' = catIdx + 1
            /\ UNCHANGED <<pc, results, proc, invoked, exc>>
       ELSE /\ \/ RunStarted(CurCmd, MLLM_CWD, "mllm_wait") /\ UNCHANGED results
               \/ /\ RunNotStarted(CurCmd, MLLM_CWD)
                  /\ results' = main_except_mllm(results, LaunchError(MLLM_CWD))
                  /\ pc' = "finalize"
            /\ UNCHANGED catIdx
    /\ UNCHANGED <<cfgVars, mllm_scores, status, exits, resFile, depth, outVars, unitVars>>

\* The judge runs and exits.
mllm_proc ==
    /\ pc = "mllm_wait"
    /\ ProcExit(CurCmd, MllmPath(CurCat, GPT4V_START, GPT4V_STEP), 10 + catIdx)
    /\ pc' = "mllm_ret"
    /\ UNCHANGED <<cfgVars, results, mllm_scores, catIdx, invoked, depth, exc,
                   outVars, unitVars>>

\* the loop body in the variant that goes on to the next category after a
\* failed invocation
mllm_body_continue(cat, rc, files, scores) ==
    LET e == run_cmd_check(MllmCmd(cat, GPT4V_START, GPT4V_STEP), rc)
        r == MllmPath(cat, GPT4V_START, GPT4V_STEP)
    IN  IF e # NoExc THEN [scores |-> scores, exc |-> NoExc]
        ELSE IF FileExists(files, r)
        THEN LET l == JsonLoad(files[r])
             IN  IF l.ok THEN [scores |-> DictSet(scores, cat, l.v), exc |-> NoExc]
                 ELSE [scores |-> scores, exc |-> Exc("JSONDecodeError", <<"Expecting value">>)]
        ELSE [scores |-> DictSet(scores, cat, PyStr(<<"No results.">>)), exc |-> NoExc]

\* the loop body after subprocess.run has returned rc, lines 132-139
mllm_body(cat, rc, files, scores) ==
    LET e == run_cmd_check(MllmCmd(cat, GPT4V_START, GPT4V_STEP), rc)
        r == MllmPath(cat, GPT4V_START, GPT4V_STEP)
    IN  IF e # NoExc THEN [scores |-> scores, exc |-> e]
        ELSE IF FileExists(files, r)
        THEN LET l == JsonLoad(files[r])
             IN  IF l.ok THEN [scores |-> DictSet(scores, cat, l.v), exc |-> NoExc]
                 ELSE [scores |-> scores, exc |-> Exc("JSONDecodeError", <<"Expecting value">>)]
        ELSE [scores |-> DictSet(scores, cat, PyStr(<<"No results.">>)), exc |-> NoExc]

\* subprocess.run has returned: the rest of the loop body; an exception leaves
\* eval_mllm_gpt4v and main() records it under MLLM_GPT4V (lines 185-187)
mllm_ret ==
    /\ pc = "mllm_ret"
    /\ LET b == mllm_body(CurCat, status, resFile, mllm_scores)
       IN  /\ mllm_scores' = b.scores
           /\ exc' = b.exc
           /\ IF b.exc # NoExc
              THEN /\ results' = main_except_mllm(results, b.exc)
                   /\ pc' = "finalize"
                   /\ UNCHANGED catIdx
              ELSE /\ catIdx' = catIdx + 1
                   /\ pc' = "mllm_loop"
                   /\ UNCHANGED results
    /\ status' = NoStatus
    /\ UNCHANGED <<cfgVars, proc, invoked, exits, resFile, depth, outVars, unitVars>>

-----------------------------------------------------------------------------
(* The summary, lines 191-197 *)

\* json.dump(results, f, indent=4) into final_eval_results.json; main() returns
\* and the process exits with status 0
finalize ==
    /\ pc = "finalize"
    /\ summary' = [exists |-> TRUE, text |-> JsonDump(results)]
    /\ writes' = writes + 1
    /\ exitStatus' = 0
    /\ pc' = "done"
    /\ UNCHANGED <<cfgVars, results, mllm_scores, catIdx, proc, status, invoked, exits,
                   resFile, depth, exc, unitVars>>

Next ==
    \/ import_module
    \/ eval_vqa_call \/ eval_vqa_proc \/ eval_vqa_ret
    \/ eval_2d_spatial_call \/ eval_2d_spatial_proc \/ eval_2d_spatial_ret
    \/ eval_numeracy_call \/ eval_numeracy_proc \/ eval_numeracy_ret
    \/ eval_3d_spatial_call \/ eval_3d_spatial_proc \/ eval_3d_spatial_ret
    \/ eval_clip_similarity_call \/ eval_clip_similarity_proc \/ eval_clip_similarity_ret
    \/ eval_three_in_one_call \/ eval_three_in_one_proc \/ eval_three_in_one_ret
    \/ mllm_gate \/ mllm_loop \/ mllm_proc \/ mllm_ret
    \/ finalize

Spec == Init /\ [][Next]_vars

-----------------------------------------------------------------------------
(* ensure_dirs and fix_depth_structure called on their own, from any tree, *)
(* up to MaxCalls times in a row, each call logged with its tree before    *)
(* and after and the exception it raised                                   *)

InitUnit ==
    /\ pc = "unit"
    /\ env = MkEnv(Unset, Unset, Unset, Unset)
    /\ depth \in Trees
    /\ InitCommon

call_ensure_dirs ==
    /\ pc = "unit"
    /\ uPc < MaxCalls
    /\ LET r == ensure_dirs(depth)
       IN  /\ depth' = r.d
           /\ uLog' = Append(uLog, [op |-> "ensure_dirs", before |-> depth,
                                    after |-> r.d, exc |-> r.exc])
    /\ uPc' = uPc + 1
    /\ UNCHANGED <<pc, cfgVars, results, mllm_scores, catIdx, proc, status, invoked, exits,
                   resFile, outVars, exc>>

call_fix_depth_structure ==
    /\ pc = "unit"
    /\ uPc < MaxCalls
    /\ LET r == fix_depth_structure(depth)
       IN  /\ depth' = r.d
           /\ uLog' = Append(uLog, [op |-> "fix_depth_structure", before |-> depth,
                                    after |-> r.d, exc |-> r.exc])
    /\ uPc' = uPc + 1
    /\ UNCHANGED <<pc, cfgVars, results, mllm_scores, catIdx, proc, status, invoked, exits,
                   resFile, outVars, exc>>

NextUnit == call_ensure_dirs \/ call_fix_depth_structure

SpecUnit == InitUnit /\ [][NextUnit]_vars

-----------------------------------------------------------------------------
(* Properties *)

StageIdx == 1..Len(MetricStages)

\* a value of the form "Failed: <message>"
IsFailed(v) == v.t = "str" /\ v.s # <<>> /\ v.s[1] = "Failed: "

ExitedWith(cmd, codes) == \E i \in 1..Len(exits) : exits[i].cmd = cmd /\ exits[i].rc \in codes

ExitedNonZero(cmd) == \E i \in 1..Len(exits) : exits[i].cmd = cmd /\ exits[i].rc # 0

InvokedCount(cmd) == Cardinality({i \in 1..Len(invoked) : invoked[i].cmd = cmd})

JudgeRuns == SelectSeq(invoked, LAMBDA r : r.cwd = MLLM_CWD)

JudgeExits == SelectSeq(exits, LAMBDA r : r.cmd \notin {MetricStages[i].cmd : i \in StageIdx})

\* C1: at Done, every stage whose command exited non-zero has its key in the
\* results, holding a "Failed: <message>" string (the six metric stages by
\* their keys, the judge by MLLM_GPT4V).
C1_FailurePlaceholder ==
    pc = "done" =>
        /\ \A i \in StageIdx :
              ExitedNonZero(MetricStages[i].cmd) =>
                  /\ HasKey(results, MetricStages[i].key)
                  /\ IsFailed(DictGet(results, MetricStages[i].key))
        /\ (\E j \in 1..Len(JudgeExits) : JudgeExits[j].rc # 0) =>
              /\ HasKey(results, MLLM_KEY)
              /\ IsFailed(DictGet(results, MLLM_KEY))

\* C2: no metric stage's command is handed to subprocess.run twice, and a run
\* that has started its stages and ended, however each stage went, has handed
\* every one of the six commands to subprocess.run exactly once.
C2_FailureIsolation ==
    /\ \A i \in StageIdx : InvokedCount(MetricStages[i].cmd) <= 1
    /\ (pc \in {"done", "crashed"} /\ invoked # <<>>) =>
          \A i \in StageIdx : InvokedCount(MetricStages[i].cmd) = 1

\* a finished run in which every one of the six commands exited non-zero
C2_Witness ==
    /\ pc = "done"
    /\ \A i \in StageIdx : ExitedNonZero(MetricStages[i].cmd)
    /\ \A i \in StageIdx : InvokedCount(MetricStages[i].cmd) = 1

\* the placeholder each stage's source line spells for an absent result file
NoResultLiteral(i) ==
    IF i = 1 THEN PyStr(<<"No result produced.">>) ELSE PyStr(<<"No results.">>)

StageFinished(sd) == ExitedWith(sd.cmd, ReturnCodes) /\ pc # sd.ret

\* C3: once a metric stage whose command exited zero without a result file has
\* returned, the stage's key is in the results and holds exactly the stage's
\* placeholder for an absent file, which is no "Failed:" string.
C3_NoResultPlaceholder ==
    \A i \in StageIdx :
        LET sd == MetricStages[i]
        IN  (StageFinished(sd) /\ ExitedWith(sd.cmd, {0}) /\ ~FileExists(resFile, sd.path)) =>
                /\ HasKey(results, sd.key)
                /\ DictGet(results, sd.key) = NoResultLiteral(i)
                /\ ~IsFailed(DictGet(results, sd.key))

\* a finished run in which the first command exited zero and left no file, and
\* the five others failed
C3_Witness ==
    /\ pc = "done"
    /\ ExitedWith(VQA.cmd, {0})
    /\ ~FileExists(resFile, VQA.path)
    /\ DictGet(results, VQA.key) = PyStr(<<"No result produced.">>)
    /\ \A i \in StageIdx \ {1} : ExitedNonZero(MetricStages[i].cmd)
    /\ DictKeys(results) = {VQA.key}

\* GPT4V_START and GPT4V_STEP are unset or spell an integer
IntsOK(e) ==
    /\ e["GPT4V_START"].set => ParseInt(e["GPT4V_START"].val).ok
    /\ e["GPT4V_STEP"].set => ParseInt(e["GPT4V_STEP"].val).ok

\* C4 as stated: whatever the environment, no run ends in a failure state: the
\* process never exits non-zero, and it exits only at Done, with the summary
\* written and status zero.
C4_NoTerminalFailure ==
    /\ pc # "crashed"
    /\ exitStatus \in {-1, 0}
    /\ (exitStatus = 0 <=> pc = "done")
    /\ pc = "done" => summary.exists

\* C4 amended: when GPT4V_START and GPT4V_STEP are unset or spell integers,
\* no run ends in a failure state, whatever the stages do: the process has not
\* exited unless it is at Done, and at Done the summary has been written once,
\* from the results, and the exit status is zero.
C4_NoTerminalFailureIntsOK ==
    IntsOK(env) =>
        /\ pc # "crashed"
        /\ pc # "done" => exitStatus = -1
        /\ pc = "done" =>
              /\ summary.exists
              /\ summary.text = JsonDump(results)
              /\ writes = 1
              /\ exitStatus = 0

\* Done after all six commands exited non-zero and the judge could not be run
C4_Witness ==
    /\ pc = "done"
    /\ IntsOK(env)
    /\ \A i \in StageIdx : ExitedNonZero(MetricStages[i].cmd)
    /\ HasKey(results, MLLM_KEY) /\ IsFailed(DictGet(results, MLLM_KEY))
    /\ summary.exists /\ exitStatus = 0

\* C5: from any tree, fix_depth_structure raises nothing, and a
\* second call right after the first leaves the tree the first call left.
C5_RepairIdempotent ==
    /\ \A i \in 1..Len(uLog) :
          uLog[i].op = "fix_depth_structure" => uLog[i].exc = NoExc
    /\ \A i \in 1..(Len(uLog) - 1) :
          (uLog[i].op = "fix_depth_structure" /\ uLog[i + 1].op = "fix_depth_structure")
              => uLog[i + 1].after = uLog[i].after

\* the names given in GPT4V_CATEGORIES, stripped
CatNames == [i \in 1..Len(GPT4V_CATEGORIES) |-> Strip(GPT4V_CATEGORIES[i])]

\* a decimal numeral as str(int) writes it
Canonical(s) ==
    /\ s # <<>>
    /\ \A i \in 1..Len(s) : IsDigit(s[i])
    /\ Len(s) > 1 => s[1] # "0"

StartText == Getenv(env, "GPT4V_START", <<"0">>)
StepText == Getenv(env, "GPT4V_STEP", <<"1">>)

\* the judge's command line for a category, from the environment's texts
ExpectedJudgeCmd(name) ==
    <<"python gpt4v_eval.py ", "--category ", "\"">> \o name
        \o <<"\"", " --start ">> \o StartText \o <<" --step ">> \o StepText

\* the credential is set and not empty, the categories are distinct non-empty
\* names, start and step are plain numerals, and every judge invocation so far
\* was started, exited zero and left no result file that fails to parse
JudgeAllSucceeded ==
    /\ env["OPENAI_API_KEY"].set /\ env["OPENAI_API_KEY"].val # <<>>
    /\ \A i \in 1..Len(CatNames) : CatNames[i] # <<>>
    /\ \A i, j \in 1..Len(CatNames) : CatNames[i] = CatNames[j] => i = j
    /\ Canonical(StartText) /\ Canonical(StepText)
    /\ Len(JudgeRuns) = Len(JudgeExits)
    /\ \A j \in 1..Len(JudgeExits) : JudgeExits[j].rc = 0
    /\ \A p \in DOMAIN resFile : resFile[p] # TextTruncated

\* C6: at Done, with the credential present, n distinct non-empty categories
\* and every judge invocation succeeding, the judge was run exactly n times,
\* once per category in list order, each command line carrying the category
\* and the configured start and step, and MLLM_GPT4V holds a mapping with
\* exactly n entries, one per category.
C6_JudgeOncePerCategory ==
    (pc = "done" /\ JudgeAllSucceeded) =>
        /\ Len(JudgeRuns) = Len(CatNames)
        /\ \A i \in 1..Len(CatNames) :
              JudgeRuns[i] = [cmd |-> ExpectedJudgeCmd(CatNames[i]), cwd |-> MLLM_CWD]
        /\ HasKey(results, MLLM_KEY)
        /\ DictGet(results, MLLM_KEY).t = "dict"
        /\ Len(DictGet(results, MLLM_KEY).items) = Len(CatNames)
        /\ DictKeys(DictGet(results, MLLM_KEY)) = Range(CatNames)

\* Done after the judge ran for two categories with start 5 and step 2
C6_Witness ==
    /\ pc = "done" /\ JudgeAllSucceeded
    /\ Len(CatNames) = 2
    /\ StartText = <<"5">> /\ StepText = <<"2">>
    /\ Len(JudgeRuns) = 2
    /\ Len(DictGet(results, MLLM_KEY).items) = 2

NoCredential == ~env["OPENAI_API_KEY"].set \/ env["OPENAI_API_KEY"].val = <<>>

\* C7: with OPENAI_API_KEY unset or empty, no state of the run has a judge
\* invocation behind it or the key MLLM_GPT4V in the results.
C7_NoCredentialNoJudge ==
    NoCredential => JudgeRuns = <<>> /\ ~HasKey(results, MLLM_KEY)

\* Done with OPENAI_API_KEY set to the empty string, all six stages having run
C7_Witness ==
    /\ pc = "done"
    /\ env["OPENAI_API_KEY"].set /\ env["OPENAI_API_KEY"].val = <<>>
    /\ Len(invoked) = Len(MetricStages)
    /\ JudgeRuns = <<>> /\ ~HasKey(results, MLLM_KEY)

\* every metric command exited zero and left a result file of plain JSON, and
\* the MLLM stage is disabled
AllSixSucceeded ==
    /\ NoCredential
    /\ \A i \in StageIdx :
          /\ ExitedWith(MetricStages[i].cmd, {0})
          /\ FileExists(resFile, MetricStages[i].path)
          /\ resFile[MetricStages[i].path] \notin OddTexts

StageKeys == {MetricStages[i].key : i \in StageIdx}

\* C8: at Done after all six stages succeeded with the MLLM stage disabled,
\* the summary file parses to a mapping with exactly the six stage keys, each
\* holding what that stage's own result file parses to.
C8_EndToEndSuccess ==
    (pc = "done" /\ AllSixSucceeded) =>
        LET s == JsonLoad(summary.text)
        IN  /\ summary.exists
            /\ s.ok /\ s.v.t = "dict"
            /\ Len(s.v.items) = 6
            /\ DictKeys(s.v) = StageKeys
            /\ \A i \in StageIdx :
                  DictGet(s.v, MetricStages[i].key)
                      = JsonLoad(resFile[MetricStages[i].path]).v

\* Done after six successes: the six result files differ from one another
C8_Witness ==
    /\ pc = "done" /\ AllSixSucceeded
    /\ \A i, j \in StageIdx :
          i # j => resFile[MetricStages[i].path] # resFile[MetricStages[j].path]
    /\ Len(results.items) = 6

C10_EnsureDirsIdempotent ==
    /\ \A i \in 1..Len(uLog) :
          uLog[i].op = "ensure_dirs" =>
              LET b == uLog[i].before
                  a == uLog[i].after
              IN  /\ uLog[i].exc = NoExc
                  /\ a.depthDir /\ a.samples.exists
                  /\ a.samples.files = b.samples.files
                  /\ a.examples = b.examples /\ a.exOther = b.exOther
                  /\ a.wrong = b.wrong
    /\ \A i \in 1..(Len(uLog) - 1) :
          (uLog[i].op = "ensure_dirs" /\ uLog[i + 1].op = "ensure_dirs")
              => uLog[i + 1].after = uLog[i].after

\* two calls in a row, the first creating both directories
C10_Witness ==
    /\ Len(uLog) >= 2
    /\ uLog[1].op = "ensure_dirs" /\ uLog[2].op = "ensure_dirs"
    /\ ~uLog[1].before.depthDir
    /\ uLog[1].after.depthDir /\ uLog[1].after.samples.exists
    /\ uLog[2].after = uLog[1].after /\ uLog[2].exc = NoExc

\* what json.load gives for the plain result the judge writes for the i-th
\* entry of GPT4V_CATEGORIES
JudgeScore(i) == JsonLoad(ScoreText(10 + i)).v

\* C11: under MLLM_GPT4V no category's entry is the content of a result file
\* written by the judge's invocation for another category.
C11_CategoryReadsOwnFile ==
    (HasKey(results, MLLM_KEY) /\ DictGet(results, MLLM_KEY).t = "dict") =>
        LET m == DictGet(results, MLLM_KEY)
        IN  \A i, j \in 1..Len(CatNames) :
                (CatNames[i] # CatNames[j] /\ HasKey(m, CatNames[i]))
                    => DictGet(m, CatNames[i]) # JudgeScore(j)

\* C12 as stated: at Done with the credential present, the judge has been
\* invoked for every non-empty category, and every entry collected in the
\* loop is under MLLM_GPT4V in the results.
C12_CategoryIsolation ==
    (pc = "done" /\ ~NoCredential) =>
        /\ \A i \in 1..Len(CatNames) :
              CatNames[i] # <<>> =>
                  \E r \in 1..Len(JudgeRuns) :
                      JudgeRuns[r].cmd = MllmCmd(CatNames[i], GPT4V_START, GPT4V_STEP)
        /\ \A k \in DictKeys(mllm_scores) :
              /\ HasKey(results, MLLM_KEY)
              /\ DictGet(results, MLLM_KEY).t = "dict"
              /\ HasKey(DictGet(results, MLLM_KEY), k)
              /\ DictGet(DictGet(results, MLLM_KEY), k) = DictGet(mllm_scores, k)

\* C12 amended: a judge invocation that exits non-zero is the last one of the
\* run: no later category is invoked, the stage is left at once, and from
\* then on MLLM_GPT4V holds "Failed: Command failed: <command>" in place of
\* the entries collected for earlier categories.
C12_FailureAbortsStage ==
    \A j \in 1..Len(JudgeExits) :
        JudgeExits[j].rc # 0 =>
            /\ j = Len(JudgeExits)
            /\ Len(JudgeRuns) = j
            /\ pc \in {"mllm_ret", "finalize", "done"}
            /\ pc \in {"finalize", "done"} =>
                  /\ HasKey(results, MLLM_KEY)
                  /\ DictGet(results, MLLM_KEY)
                        = PyStr(<<"Failed: ", "Command failed: ">> \o JudgeExits[j].cmd)

\* Done after the judge succeeded for the first of two categories, its result
\* collected, and exited non-zero for the second
C12_Witness ==
    /\ pc = "done"
    /\ Len(JudgeExits) = 2
    /\ JudgeExits[1].rc = 0 /\ JudgeExits[2].rc # 0
    /\ Len(mllm_scores.items) = 1
    /\ IsFailed(DictGet(results, MLLM_KEY))

\* main() is past the 3D stage: a later stage is running or the run is ending
LaterPcs ==
    {ClipSimilarity.pc, ClipSimilarity.wait, ClipSimilarity.ret,
     ThreeInOne.pc, ThreeInOne.wait, ThreeInOne.ret,
     "mllm_gate", "mllm_loop", "mllm_wait", "mllm_ret", "finalize", "done"}

\* C13 as stated: once the 3D command has exited, with any status, no later
\* stage runs while the misplaced depth/examples/samples exists.
C13_RepairAfterAnyExit ==
    (pc \in LaterPcs /\ ExitedWith(Spatial3D.cmd, ReturnCodes)) => ~depth.wrong.exists

\* C13 amended: once the 3D command has exited with status zero, the repair
\* step has run before the 3D key is written and before any later stage
\* starts: no later stage runs, and the results never hold the 3D key, while
\* depth/examples (the misplaced tree) exists.
C13_RepairAfterZeroExit ==
    /\ (pc \in LaterPcs /\ ExitedWith(Spatial3D.cmd, {0}))
          => ~depth.wrong.exists /\ ~depth.examples
    /\ HasKey(results, Spatial3D.key) => ~depth.wrong.exists /\ ~depth.examples

\* the similarity stage about to start after the 3D command exited zero: the
\* depth map it misplaced is in depth/samples and depth/examples is gone
C13_Witness ==
    /\ pc = ClipSimilarity.pc
    /\ ExitedWith(Spatial3D.cmd, {0})
    /\ HasKey(results, Spatial3D.key)
    /\ depth.samples.exists
    /\ 1 \in DOMAIN depth.samples.files /\ depth.samples.files[1] = 2
    /\ ~depth.examples /\ ~depth.wrong.exists

\* C14: when the misplaced directory exists and fix_depth_structure returns,
\* every file that was in it is in depth/samples, every file that was in
\* depth/samples before is still there with the content it had, and the tree
\* removed held no file besides the ones moved.
C14_RepairLosesNoData ==
    \A i \in 1..Len(uLog) :
        LET b == uLog[i].before
            a == uLog[i].after
        IN  (uLog[i].op = "fix_depth_structure" /\ b.wrong.exists /\ uLog[i].exc = NoExc) =>
                /\ \A n \in DOMAIN b.wrong.files :
                      n \in DOMAIN a.samples.files /\ a.samples.files[n] = b.wrong.files[n]
                /\ \A n \in DOMAIN b.samples.files :
                      n \in DOMAIN a.samples.files /\ a.samples.files[n] = b.samples.files[n]
                /\ ~b.exOther

\* the place of a command in main()'s order: 1 to 6 for the metric stages'
\* commands, 7 for the judge's
CmdStage ==
    [c \in {MetricStages[i].cmd : i \in StageIdx} |->
        CHOOSE i \in StageIdx : MetricStages[i].cmd = c]

StageOf(cmd) == IF cmd \in DOMAIN CmdStage THEN CmdStage[cmd] ELSE Len(MetricStages) + 1

\* positions of main() at which run_cmd is blocked in subprocess.run
WaitPcs == {MetricStages[i].wait : i \in StageIdx} \cup {"mllm_wait"}

\* the result of metric stage i, if its command left one to collect, is in
\* the results
Collected(i) ==
    LET sd == MetricStages[i]
    IN  \/ HasKey(results, sd.key)
        \/ ~ExitedWith(sd.cmd, {0})
        \/ FileExists(resFile, sd.path) /\ ~JsonLoad(resFile[sd.path]).ok

\* C15: commands are handed to subprocess.run in the order VQA, 2D, numeracy,
\* 3D, similarity, 3-in-1, judge; an external process is running only while
\* run_cmd is blocked on it, and it is the command started last; once a
\* stage's command has been started, every earlier stage's command is no
\* longer running and its result has been collected.
C15_StrictlySequential ==
    LET idx == [a \in 1..Len(invoked) |-> StageOf(invoked[a].cmd)]
    IN  /\ \A a \in 1..(Len(invoked) - 1) :
              /\ idx[a] <= idx[a + 1]
              /\ idx[a + 1] <= Len(MetricStages) => idx[a] < idx[a + 1]
        /\ proc # NoProc <=> pc \in WaitPcs
        /\ proc # NoProc => invoked # <<>> /\ proc = invoked[Len(invoked)]
        /\ Len(exits) <= Len(invoked)
        /\ invoked # <<>> =>
              \A i \in 1..(idx[Len(invoked)] - 1) :
                  proc.cmd # MetricStages[i].cmd /\ Collected(i)

\* the judge running for the second category after seven commands exited
C15_Witness ==
    /\ pc = "mllm_wait"
    /\ catIdx = 2
    /\ Len(invoked) = 8 /\ Len(exits) = 7
    /\ proc = invoked[8]
    /\ \A i \in StageIdx : HasKey(results, MetricStages[i].key)

\* C16: the summary is never written twice and is written once at Done; when
\* it has been written, each of the six metric commands has been handed to
\* subprocess.run, the MLLM stage has been skipped for want of a credential
\* or has left its key, and the results are still the ones written.
C16_SummaryOnceAtEnd ==
    /\ writes <= 1
    /\ summary.exists <=> writes = 1
    /\ pc = "done" => writes = 1
    /\ writes = 1 =>
          /\ pc = "done"
          /\ \A i \in StageIdx : InvokedCount(MetricStages[i].cmd) = 1
          /\ NoCredential \/ HasKey(results, MLLM_KEY)
          /\ NoCredential => JudgeRuns = <<>>
          /\ summary.text = JsonDump(results)

\* Done with the summary written after seven stages left their keys
C16_Witness ==
    /\ pc = "done"
    /\ writes = 1 /\ summary.exists
    /\ Len(results.items) = 7
    /\ JudgeRuns # <<>>
    /\ summary.text = JsonDump(results)

\* C17: a step in which run_cmd fails inside a metric stage (the command has
\* exited non-zero, or could not be started) leaves the results as they were
\* and hands run_cmd's exception to main(): RuntimeError with the command for
\* a non-zero exit, whatever the result file holds.
C17_FailureLeavesResults ==
    [][\A i \in StageIdx :
          LET sd == MetricStages[i]
          IN  /\ (pc = sd.ret /\ status # 0) =>
                    /\ results' = results
                    /\ exc' = Exc("RuntimeError", <<"Command failed: ">> \o sd.cmd)
                    /\ resFile' = resFile
              /\ (pc = sd.pc /\ pc' # sd.wait) =>
                    /\ results' = results
                    /\ exc' # NoExc]_vars

\* the 3D stage about to start after the numeracy command exited non-zero:
\* the results hold the two earlier keys and main() has seen the RuntimeError
C17_Witness ==
    /\ pc = Spatial3D.pc
    /\ ExitedNonZero(Numeracy.cmd)
    /\ exc = Exc("RuntimeError", <<"Command failed: ">> \o Numeracy.cmd)
    /\ DictKeys(results) = {VQA.key, Spatial2D.key}

\* sub occurs in s as a run of consecutive elements
Contains(s, sub) ==
    \E k \in 0..(Len(s) - Len(sub)) : SubSeq(s, k + 1, k + Len(sub)) = sub

\* positions of main() between two stages, and before the summary (reached
\* from the judge's failure, or from the gate)
BetweenPcs == {MetricStages[i].pc : i \in StageIdx} \cup {"mllm_gate", "finalize"}

\* C18: when the command started last has exited non-zero and main() has
\* moved on, run_cmd has raised; and the exception run_cmd raised for a
\* command, on a non-zero exit or a failed start, carries both the command
\* string and the working directory.
C18_FailureCarriesCmdAndCwd ==
    /\ (/\ pc \in BetweenPcs
        /\ exits # <<>> /\ invoked # <<>>
        /\ exits[Len(exits)].rc # 0
        /\ exits[Len(exits)].cmd = invoked[Len(invoked)].cmd
        /\ pc = "finalize" => invoked[Len(invoked)].cwd = MLLM_CWD)
          => exc.type = "RuntimeError"
    /\ (exc.type \in {"RuntimeError", "FileNotFoundError"} /\ invoked # <<>>) =>
          /\ Contains(exc.msg, invoked[Len(invoked)].cmd)
          /\ Contains(exc.msg, invoked[Len(invoked)].cwd)

\* the key the code at position p may write: a metric stage's own key where
\* the stage returns, MLLM_GPT4V where the loop ends or main() handles the
\* judge's failure, none elsewhere
OwnKey(p) ==
    {MetricStages[i].key : i \in {j \in StageIdx : MetricStages[j].ret = p}}
        \cup (IF p \in {"mllm_loop", "mllm_ret"} THEN {MLLM_KEY} ELSE {})

\* C19: in every state the keys of the results are among the seven stage
\* keys, a metric stage's key is there only if its command has been started,
\* and MLLM_GPT4V only once the MLLM stage, entered with a credential, has
\* ended; and every step adds at most the key of the stage it belongs to and
\* leaves every metric stage's key already written in place with its value.
C19_KeysOwnedByStages ==
    /\ [](/\ DictKeys(results) \subseteq StageKeys \cup {MLLM_KEY}
          /\ \A i \in StageIdx :
                HasKey(results, MetricStages[i].key)
                    => InvokedCount(MetricStages[i].cmd) = 1
          /\ HasKey(results, MLLM_KEY) => ~NoCredential /\ pc \in {"finalize", "done"})
    /\ [][/\ DictKeys(results') \ DictKeys(results) \subseteq OwnKey(pc)
          /\ \A k \in DictKeys(results) \ {MLLM_KEY} :
                HasKey(results', k) /\ DictGet(results', k) = DictGet(results, k)]_vars

\* the 3-in-1 stage about to start with the five earlier keys written
C19_Witness ==
    /\ pc = ThreeInOne.pc
    /\ DictKeys(results) = StageKeys \ {ThreeInOne.key}
    /\ Len(results.items) = 5

\* the file at path exists and json.load fails on it
Malformed(path) == FileExists(resFile, path) /\ ~JsonLoad(resFile[path]).ok

\* where the judge's result is looked for (the category plays no part)
JudgePath == MllmPath(<<>>, GPT4V_START, GPT4V_STEP)

\* C20: at Done, a metric stage whose command exited zero leaving a file that
\* is not valid JSON has no key in the results, as a stage whose command
\* exited non-zero has none, while all six commands were run and the summary
\* is written; and the MLLM stage, were the judge's file for the last
\* invocation not valid JSON, has left a "Failed:" string under MLLM_GPT4V,
\* as after a non-zero exit of the judge.
C20_MalformedLikeFailure ==
    pc = "done" =>
        /\ \A i \in StageIdx :
              LET sd == MetricStages[i]
              IN  /\ (ExitedWith(sd.cmd, {0}) /\ Malformed(sd.path)) =>
                        /\ ~HasKey(results, sd.key)
                        /\ \A j \in StageIdx : InvokedCount(MetricStages[j].cmd) = 1
                        /\ summary.exists
                  /\ ExitedNonZero(sd.cmd) => ~HasKey(results, sd.key)
        /\ JudgeExits # <<>> =>
              LET last == JudgeExits[Len(JudgeExits)]
              IN  /\ (last.rc = 0 /\ Len(JudgeRuns) = Len(JudgeExits) /\ Malformed(JudgePath)) =>
                        /\ HasKey(results, MLLM_KEY)
                        /\ IsFailed(DictGet(results, MLLM_KEY))
                        /\ summary.exists
                  /\ last.rc # 0 =>
                        HasKey(results, MLLM_KEY) /\ IsFailed(DictGet(results, MLLM_KEY))

\* Done after the first command exited zero leaving a truncated result file
\* and the five others left their results
C20_Witness ==
    /\ pc = "done"
    /\ ExitedWith(VQA.cmd, {0})
    /\ Malformed(VQA.path)
    /\ DictKeys(results) = StageKeys \ {VQA.key}
    /\ summary.exists

====
